---- MODULE Spec2Model ----
(***************************************************************************)
(* Achievement lifecycle and dual-store consistency of                     *)
(* sistem-prestasi-mahasiswa.                                              *)
(*                                                                         *)
(* Two implementations of the achievement service live in the repository: *)
(*   "ctx"  - the context-based AchievementService over database/sql      *)
(*            (src/unnamed/part_002, achievement_repository.go)           *)
(*   "gorm" - the GORM-based achievementService                           *)
(*            (src/app/service/achievement.go, student_repository.go)     *)
(* A behaviour runs one of them (svc) over a reference store (refs) and a  *)
(* content store (content).  Every store call is one atomic step; the     *)
(* code between two store calls is local to the request.                  *)
(***************************************************************************)
EXTENDS Integers, Sequences, FiniteSets, TLC

\* ------------------------------------------------------------------ bounds
NumProcs   == 2      \* concurrent requests
MaxCreates == 1      \* CreateAchievement calls in a behaviour
MaxCalls   == 4      \* service calls in a behaviour
OidLen     == 1      \* bytes of an ObjectID in the model

Procs     == 1..NumProcs
Students  == {"S1", "S2"}
Owners    == {"S1"}              \* the student who creates; S2 is the other student
Verifiers == {"V1"}
Fields    == {"X", "Y"}          \* the content payload (title, type, details ...)
Notes     == {"", "incomplete"}  \* rejection notes a caller can send
Services  == {"ctx", "gorm"}

\* the users behind the verify and reject requests: the owner (the user
\* account of a student carries the student's name here) and the verifier, a
\* lecturer's user account
Users == Owners \cup Verifiers
RoleOf(u) == IF u \in Verifiers THEN "lecturer" ELSE "Mahasiswa"
RequiredRoles == {"lecturer", "admin"}   \* RequireRole(userRepo, "lecturer", "admin")

Null   == 0                      \* NULL timestamp
NoNote == "<null>"               \* NULL rejection_note
NoUser == "<null>"               \* NULL verified_by
NoOid  == << >>                  \* zero ObjectID

\* ------------------------------------------------------------ error values
OK                  == "ok"
ErrStore            == "store unavailable"
ErrCanceled         == "context canceled"
ErrRefNotFound      == "reference not found"
ErrRecordNotFound   == "record not found"
ErrMongoNotFound    == "mongo achievement not found"
ErrNoDocuments      == "mongo: no documents in result"
ErrMalformedId      == "invalid data integrity: malformed mongo id"
ErrInvalidHex       == "the provided hex string is not a valid ObjectID"
ErrNoChange         == "reference not found or no change"
ErrOnlyDraftSubmit  == "only draft achievements can be submitted"
ErrNotSubmitted     == "achievement is not in submitted state"
ErrNotOwnerCtx      == "unauthorized: you do not own this achievement"
ErrCannotDelete     == "cannot delete achievement that is under review or verified"
ErrNotOwnerGorm     == "unauthorized: not your achievement"
ErrOnlyDraftUpdate  == "only draft achievements can be updated"
ErrOnlyDraftDelete  == "only draft achievements can be deleted"
ErrOnlySubmVerify   == "only submitted achievements can be verified"
ErrOnlySubmReject   == "only submitted achievements can be rejected"

ErrInsufficientRole == "insufficient role permissions"
ErrNoteRequired     == "rejection note is required"
ErrNoteRequiredGorm == "rejection_note is required"
ErrAccessDenied     == "access denied: resource does not belong to user"
ErrStudentProfile   == "student profile not found"
ErrRoleNotFound     == "user role not found"

VARIABLES
  svc,        \* which implementation serves the requests
  refs,       \* reference store: uuid -> row of achievement_references
  content,    \* content store: ObjectID -> document of "achievements"
  pc,         \* pc[p]: position of request p inside its service call
  l,          \* l[p]: locals of the call of p (arguments, loaded reference ...)
  ret,        \* ret[p]: what the last call of p returned
  clock,      \* NOW() / time.Now(): advances with every store write
  created,    \* number of CreateAchievement calls so far (mints the ids)
  calls,      \* number of service calls so far
  cancelled,  \* cancelled[p]: the caller's context of p is cancelled
  submittedAtWrites  \* history: uuid -> number of persisted writes of submitted_at

vars == <<svc, refs, content, pc, l, ret, clock, created, calls, cancelled,
          submittedAtWrites>>

\* ------------------------------------------------- ObjectID <-> hex string
HexDigits == <<"0","1","2","3","4","5","6","7","8","9","a","b","c","d","e","f">>

Pow256(n) == IF n = 0 THEN 1 ELSE IF n = 1 THEN 256 ELSE 65536

\* primitive.NewObjectID(): a fresh 12-byte id (OidLen bytes here); the n-th id
NewObjectID(n) == [i \in 1..OidLen |-> (n \div Pow256(OidLen - i)) % 256]

\* ObjectID.Hex(): two lower-case hex digits per byte
Hex(oid) ==
  [i \in 1..(2 * Len(oid)) |->
     LET b == oid[(i + 1) \div 2]
     IN IF i % 2 = 1 THEN HexDigits[(b \div 16) + 1] ELSE HexDigits[(b % 16) + 1]]

HexVal(c) == IF \E i \in 1..16 : HexDigits[i] = c
             THEN (CHOOSE i \in 1..16 : HexDigits[i] = c) - 1
             ELSE -1

\* primitive.ObjectIDFromHex(s): error unless s is 2*OidLen hex digits
ObjectIDFromHex(s) ==
  IF Len(s) # 2 * OidLen \/ \E i \in 1..Len(s) : HexVal(s[i]) < 0
  THEN [err |-> ErrInvalidHex, oid |-> NoOid]
  ELSE [err |-> OK,
        oid |-> [i \in 1..OidLen |-> 16 * HexVal(s[2 * i - 1]) + HexVal(s[2 * i])]]

\* uuid.New(): the n-th fresh reference id
NewUUID(n) == n

\* uuid.UUID.String() as the JSON of a response carries it: hex digits and a
\* dash (the 8-4-4-4-12 form at the width of the model)
UUIDString(u) == Hex(<<u>>) \o <<"-">>

\* uuid.Parse / helpers.GetUUIDFromParams: the id a request names, 0 = error
ParseUUID(s) ==
  IF Len(s) = 3 /\ s[3] = "-" /\ HexVal(s[1]) >= 0 /\ HexVal(s[2]) >= 0
  THEN 16 * HexVal(s[1]) + HexVal(s[2])
  ELSE 0

\* --------------------------------------------------------------- records
NoRef == [student_id |-> NoUser, mongo_achievement_id |-> << >>, status |-> "",
          submitted_at |-> Null, verified_at |-> Null, verified_by |-> NoUser,
          rejection_note |-> NoNote, updated_at |-> Null]

NoDoc == [studentId |-> NoUser, fields |-> "", deleted_at |-> Null,
          isDeleted |-> FALSE, updatedAt |-> Null]

\* the value a call hands back: nil, a *models.Achievement (content document)
\* or a *models.AchievementReference; id is the "id" of its JSON form
NoVal == [kind |-> "nil", id |-> << >>, doc |-> NoDoc, ref |-> NoRef]
AchievementVal(oid, doc) == [kind |-> "achievement", id |-> Hex(oid), doc |-> doc, ref |-> NoRef]
ReferenceVal(id, ref) == [kind |-> "reference", id |-> UUIDString(id), doc |-> NoDoc, ref |-> ref]
BothVal(id, ref, doc) == [kind |-> "both", id |-> UUIDString(id), doc |-> doc, ref |-> ref]

InitLocals ==
  [op |-> "none", id |-> 0, actor |-> NoUser, note |-> NoNote, doc |-> NoDoc,
   ref |-> NoRef, oid |-> NoOid, refid |-> 0,
   contentCreated |-> FALSE,   \* this call inserted a content document
   compensations  |-> 0,       \* compensating soft-deletes this call attempted
   compAvail      |-> FALSE,   \* the content store was up when the compensation ran
   wroteContent   |-> FALSE,   \* this call wrote the content store
   wroteRef       |-> FALSE,   \* this call wrote the reference store
   softDeleteErr  |-> OK,      \* what the content soft-delete of this call returned
   createErr      |-> OK,      \* what CreateReference of this call returned
   page           |-> << >>,   \* ids of the references a list query returned
   down           |-> {},      \* ids of the page whose content lookup got no answer
   retClock       |-> 0]       \* clock when the call returned

\* a content document is soft-deleted (deleted_at of the sql service,
\* isDeleted of the gorm service)
SoftDeleted(doc) == doc.deleted_at # Null \/ doc.isDeleted

\* the outcome of a store call of request p: the store is up and the
\* context of p is live
Reach(p, up) == up /\ ~cancelled[p]
StoreErr(p)  == IF cancelled[p] THEN ErrCanceled ELSE ErrStore

Init ==
  /\ svc \in Services
  /\ refs = << >>
  /\ content = << >>
  /\ pc = [p \in Procs |-> "idle"]
  /\ l = [p \in Procs |-> InitLocals]
  /\ ret = [p \in Procs |-> [err |-> "none", val |-> NoVal]]
  /\ clock = 1
  /\ created = 0
  /\ calls = 0
  /\ cancelled = [p \in Procs |-> FALSE]
  /\ submittedAtWrites = << >>

\* a call of p begins: fresh locals, live context
Begin(p, op, id, actor) ==
  [InitLocals EXCEPT !.op = op, !.id = id, !.actor = actor]

CanCall(p) == pc[p] = "idle" /\ calls < MaxCalls

\* the call of p returns e (and value v)
Return(p, e, v) ==
  /\ pc' = [pc EXCEPT ![p] = "idle"]
  /\ ret' = [ret EXCEPT ![p] = [err |-> e, val |-> v]]

Goto(p, label) ==
  /\ pc' = [pc EXCEPT ![p] = label]
  /\ UNCHANGED ret

RefIds == 1..MaxCreates   \* the ids a request can name

\* ======================================================================
\* Repository of the context-based service (achievement_repository.go)
\* ======================================================================

\* GetReferenceByID: the row, or "reference not found"
GetReferenceByID(id) ==
  IF id \in DOMAIN refs THEN [err |-> OK, ref |-> refs[id]]
  ELSE [err |-> ErrRefNotFound, ref |-> NoRef]

\* GetAchievementByID: FindOne by _id alone
GetAchievementByID(oid) ==
  IF oid \in DOMAIN content THEN [err |-> OK, doc |-> content[oid]]
  ELSE [err |-> ErrMongoNotFound, doc |-> NoDoc]

\* SoftDeleteAchievement: UpdateOne {_id: id} $set deleted_at = now; an id that
\* matches nothing is no error
SoftDeleteAchievement(oid, now) ==
  IF oid \in DOMAIN content
  THEN [content EXCEPT ![oid].deleted_at = now]
  ELSE content

\* UpdateStatus without the `submitted_at = NOW()` of its "submitted" case
UpdateStatusRow_NoSubmittedAt(row, status, verifierID, note, now) ==
  LET base == [row EXCEPT !.status = status, !.updated_at = now]
  IN CASE status \in {"verified", "rejected"} ->
            [base EXCEPT !.verified_at = now,
                         !.verified_by = IF verifierID # NoUser THEN verifierID ELSE @,
                         !.rejection_note = IF note # NoNote THEN note ELSE @]
       [] OTHER -> base

\* the row UpdateStatus's UPDATE leaves: status and updated_at always, the
\* other columns by the switch on the new status
UpdateStatusRow(row, status, verifierID, note, now) ==
  LET base == [row EXCEPT !.status = status, !.updated_at = now]
  IN CASE status = "submitted" -> [base EXCEPT !.submitted_at = now]
       [] status \in {"verified", "rejected"} ->
            [base EXCEPT !.verified_at = now,
                         !.verified_by = IF verifierID # NoUser THEN verifierID ELSE @,
                         !.rejection_note = IF note # NoNote THEN note ELSE @]
       [] OTHER -> base

\* UpdateStatus(ctx, id, status, verifierID, note) as the last store call of
\* the call of p: UPDATE ... WHERE id = $2, keyed by id only
UpdateStatus(p, id, status, verifierID, note) ==
  \E up \in BOOLEAN :
    IF ~Reach(p, up)
    THEN /\ Return(p, StoreErr(p), NoVal)
         /\ l' = [l EXCEPT ![p].retClock = clock]
         /\ UNCHANGED <<refs, clock, submittedAtWrites>>
    ELSE IF id \notin DOMAIN refs
    THEN /\ Return(p, ErrNoChange, NoVal)
         /\ l' = [l EXCEPT ![p].retClock = clock]
         /\ UNCHANGED <<refs, clock, submittedAtWrites>>
    ELSE /\ refs' = [refs EXCEPT ![id] = UpdateStatusRow(@, status, verifierID, note, clock)]
         /\ submittedAtWrites' =
              IF status = "submitted"
              THEN [submittedAtWrites EXCEPT ![id] = @ + 1]
              ELSE submittedAtWrites
         /\ clock' = clock + 1
         /\ l' = [l EXCEPT ![p].wroteRef = TRUE, ![p].retClock = clock + 1]
         /\ Return(p, OK, NoVal)

\* ======================================================================
\* Context-based AchievementService (src/unnamed/part_002)
\* ======================================================================

\* CreateAchievement, step 2: achRepo.CreateAchievement (NewObjectID, InsertOne)
CtxCreate_InsertContent(p, studentID, fields) ==
  /\ svc = "ctx" /\ CanCall(p) /\ created < MaxCreates
  /\ calls' = calls + 1
  /\ created' = created + 1
  /\ cancelled' = [cancelled EXCEPT ![p] = FALSE]
  /\ LET n   == created + 1
         oid == NewObjectID(n)
         doc == [NoDoc EXCEPT !.studentId = studentID, !.fields = fields,
                              !.updatedAt = clock]
         loc == [Begin(p, "create", 0, studentID) EXCEPT
                   !.oid = oid, !.refid = NewUUID(n), !.doc = doc]
     IN \E up \in BOOLEAN :
          IF up
          THEN /\ content' = content @@ (oid :> doc)
               /\ clock' = clock + 1
               /\ l' = [l EXCEPT ![p] = [loc EXCEPT !.contentCreated = TRUE,
                                                    !.wroteContent = TRUE]]
               /\ Goto(p, "create_reference")
          ELSE /\ l' = [l EXCEPT ![p] = [loc EXCEPT !.retClock = clock]]
               /\ Return(p, ErrStore, NoVal)
               /\ UNCHANGED <<content, clock>>
  /\ UNCHANGED <<svc, refs, submittedAtWrites>>

\* CreateReference given the document's id before the insert assigned it
CtxCreate_CreateReference_ZeroId(p) ==
  /\ pc[p] = "create_reference" /\ l[p].op = "create" /\ svc = "ctx"
  /\ LET ref == [NoRef EXCEPT !.student_id = l[p].actor,
                              !.mongo_achievement_id = Hex(NewObjectID(0)),
                              !.status = "draft", !.updated_at = clock]
     IN /\ refs' = refs @@ (l[p].refid :> ref)
        /\ submittedAtWrites' = submittedAtWrites @@ (l[p].refid :> 0)
        /\ clock' = clock + 1
        /\ l' = [l EXCEPT ![p].wroteRef = TRUE, ![p].retClock = clock + 1]
        /\ Return(p, OK, AchievementVal(l[p].oid, l[p].doc))
  /\ UNCHANGED <<svc, content, created, calls, cancelled>>

\* CreateAchievement, steps 3-4: CreateReference; on success return achievement
CtxCreate_CreateReference(p) ==
  /\ pc[p] = "create_reference" /\ l[p].op = "create" /\ svc = "ctx"
  /\ LET ref == [NoRef EXCEPT !.student_id = l[p].actor,
                              !.mongo_achievement_id = Hex(l[p].oid),
                              !.status = "draft", !.updated_at = clock]
     IN \E up \in BOOLEAN :
          IF Reach(p, up)
          THEN /\ refs' = refs @@ (l[p].refid :> ref)
               /\ submittedAtWrites' = submittedAtWrites @@ (l[p].refid :> 0)
               /\ clock' = clock + 1
               /\ l' = [l EXCEPT ![p].wroteRef = TRUE, ![p].retClock = clock + 1]
               /\ Return(p, OK, AchievementVal(l[p].oid, l[p].doc))
          ELSE /\ l' = [l EXCEPT ![p].createErr = StoreErr(p)]
               /\ Goto(p, "create_compensate")
               /\ UNCHANGED <<refs, submittedAtWrites, clock>>
  /\ UNCHANGED <<svc, content, created, calls, cancelled>>

\* CreateAchievement returning the CreateReference error with no compensation
CtxCreate_Compensate_Skipped(p) ==
  /\ pc[p] = "create_compensate" /\ svc = "ctx"
  /\ \E up \in BOOLEAN :
       l' = [l EXCEPT ![p].compAvail = up, ![p].retClock = clock]
  /\ Return(p, l[p].createErr, NoVal)
  /\ UNCHANGED <<svc, refs, content, clock, created, calls, cancelled, submittedAtWrites>>

\* CreateAchievement returning the error of the compensation when the
\* compensation fails
CtxCreate_Compensate_ErrMasked(p) ==
  /\ pc[p] = "create_compensate" /\ svc = "ctx"
  /\ \E up \in BOOLEAN :
       IF Reach(p, up)
       THEN /\ content' = SoftDeleteAchievement(l[p].oid, clock)
            /\ clock' = clock + 1
            /\ l' = [l EXCEPT ![p].compensations = @ + 1, ![p].compAvail = up,
                              ![p].retClock = clock + 1]
            /\ Return(p, l[p].createErr, NoVal)
       ELSE /\ l' = [l EXCEPT ![p].compensations = @ + 1, ![p].compAvail = up,
                              ![p].softDeleteErr = StoreErr(p),
                              ![p].retClock = clock]
            /\ Return(p, StoreErr(p), NoVal)
            /\ UNCHANGED <<content, clock>>
  /\ UNCHANGED <<svc, refs, created, calls, cancelled, submittedAtWrites>>

\* CreateAchievement, the compensation: _ = SoftDeleteAchievement; return err
CtxCreate_Compensate(p) ==
  /\ pc[p] = "create_compensate" /\ svc = "ctx"
  /\ \E up \in BOOLEAN :
       IF Reach(p, up)
       THEN /\ content' = SoftDeleteAchievement(l[p].oid, clock)
            /\ clock' = clock + 1
            /\ l' = [l EXCEPT ![p].compensations = @ + 1, ![p].compAvail = up,
                              ![p].retClock = clock + 1]
       ELSE /\ l' = [l EXCEPT ![p].compensations = @ + 1, ![p].compAvail = up,
                              ![p].softDeleteErr = StoreErr(p),
                              ![p].retClock = clock]
            /\ UNCHANGED <<content, clock>>
  /\ Return(p, l[p].createErr, NoVal)
  /\ UNCHANGED <<svc, refs, created, calls, cancelled, submittedAtWrites>>

\* a call that returns at its first store call
ReturnAtOnce(p, loc, e, v) ==
  /\ l' = [l EXCEPT ![p] = [loc EXCEPT !.retClock = clock]]
  /\ Return(p, e, v)

StartCall(p) ==
  /\ CanCall(p)
  /\ calls' = calls + 1
  /\ cancelled' = [cancelled EXCEPT ![p] = FALSE]

\* GetAchievementDetail(ctx, referenceID) with the reference store up:
\* reference, then ObjectIDFromHex, then the document
GetAchievementDetail(id, upMongo) ==
  LET r == GetReferenceByID(id)
      h == ObjectIDFromHex(r.ref.mongo_achievement_id)
      d == GetAchievementByID(h.oid)
  IN IF r.err # OK THEN [err |-> r.err, val |-> NoVal]
     ELSE IF h.err # OK THEN [err |-> ErrMalformedId, val |-> NoVal]
     ELSE IF ~upMongo THEN [err |-> ErrStore, val |-> NoVal]
     ELSE IF d.err # OK THEN [err |-> d.err, val |-> NoVal]
     ELSE [err |-> OK, val |-> AchievementVal(h.oid, d.doc)]

\* a GetAchievementDetail call
CtxGetAchievementDetail(p, id) ==
  /\ svc = "ctx" /\ StartCall(p)
  /\ \E upSql \in BOOLEAN, upMongo \in BOOLEAN :
       LET out == IF upSql THEN GetAchievementDetail(id, upMongo)
                  ELSE [err |-> ErrStore, val |-> NoVal]
       IN ReturnAtOnce(p, Begin(p, "read", id, NoUser), out.err, out.val)
  /\ UNCHANGED <<svc, refs, content, clock, created, submittedAtWrites>>

\* the read half of Submit / Verify / Reject: GetReferenceByID and the status
\* rule; the call goes on to its UpdateStatus only from the required status
CtxLoadForTransition(p, op, id, actor, note, required, refusal, label) ==
  /\ svc = "ctx" /\ StartCall(p)
  /\ LET loc == [Begin(p, op, id, actor) EXCEPT !.note = note]
         r   == GetReferenceByID(id)
     IN \E up \in BOOLEAN :
          IF ~up THEN ReturnAtOnce(p, loc, ErrStore, NoVal)
          ELSE IF r.err # OK THEN ReturnAtOnce(p, loc, r.err, NoVal)
          ELSE IF r.ref.status # required
               THEN ReturnAtOnce(p, [loc EXCEPT !.ref = r.ref], refusal, NoVal)
          ELSE /\ l' = [l EXCEPT ![p] = [loc EXCEPT !.ref = r.ref]]
               /\ Goto(p, label)
  /\ UNCHANGED <<svc, refs, content, clock, created, submittedAtWrites>>

\* SubmitForVerification: read, "only draft" rule
CtxSubmit_Read(p, id) ==
  CtxLoadForTransition(p, "submit", id, NoUser, NoNote, "draft",
                       ErrOnlyDraftSubmit, "submit_write")

\* SubmitForVerification: UpdateStatus(ctx, id, "submitted", nil, nil)
CtxSubmit_Write(p) ==
  /\ pc[p] = "submit_write" /\ svc = "ctx"
  /\ UpdateStatus(p, l[p].id, "submitted", NoUser, NoNote)
  /\ UNCHANGED <<svc, content, created, calls, cancelled>>

\* VerifyAchievement: read, "submitted" rule
CtxVerify_Read(p, id, verifierID) ==
  CtxLoadForTransition(p, "verify", id, verifierID, NoNote, "submitted",
                       ErrNotSubmitted, "verify_write")

\* VerifyAchievement: UpdateStatus(ctx, id, "verified", &verifierID, nil)
CtxVerify_Write(p) ==
  /\ pc[p] = "verify_write" /\ svc = "ctx"
  /\ UpdateStatus(p, l[p].id, "verified", l[p].actor, NoNote)
  /\ UNCHANGED <<svc, content, created, calls, cancelled>>

\* RejectAchievement: read, "submitted" rule
CtxReject_Read(p, id, verifierID, note) ==
  CtxLoadForTransition(p, "reject", id, verifierID, note, "submitted",
                       ErrNotSubmitted, "reject_write")

\* RejectAchievement: UpdateStatus(ctx, id, "rejected", &verifierID, &note)
CtxReject_Write(p) ==
  /\ pc[p] = "reject_write" /\ svc = "ctx"
  /\ UpdateStatus(p, l[p].id, "rejected", l[p].actor, l[p].note)
  /\ UNCHANGED <<svc, content, created, calls, cancelled>>

\* DeleteAchievement's status rule letting a submitted reference through
CtxDeletable_AlsoSubmitted(status) ==
  status = "draft" \/ status = "rejected" \/ status = "submitted"

\* the statuses DeleteAchievement of the context-based service accepts
CtxDeletable(status) == status = "draft" \/ status = "rejected"

\* DeleteAchievement, steps 1-2: reference, ownership, status, ObjectIDFromHex
CtxDelete_Read(p, id, studentID) ==
  /\ svc = "ctx" /\ StartCall(p)
  /\ LET loc == Begin(p, "delete", id, studentID)
         r   == GetReferenceByID(id)
         h   == ObjectIDFromHex(r.ref.mongo_achievement_id)
     IN \E up \in BOOLEAN :
          IF ~up THEN ReturnAtOnce(p, loc, ErrStore, NoVal)
          ELSE IF r.err # OK THEN ReturnAtOnce(p, loc, r.err, NoVal)
          ELSE IF r.ref.student_id # studentID
               THEN ReturnAtOnce(p, [loc EXCEPT !.ref = r.ref], ErrNotOwnerCtx, NoVal)
          ELSE IF ~CtxDeletable(r.ref.status)
               THEN ReturnAtOnce(p, [loc EXCEPT !.ref = r.ref], ErrCannotDelete, NoVal)
          ELSE IF h.err # OK
               THEN ReturnAtOnce(p, [loc EXCEPT !.ref = r.ref], h.err, NoVal)
          ELSE /\ l' = [l EXCEPT ![p] = [loc EXCEPT !.ref = r.ref, !.oid = h.oid]]
               /\ Goto(p, "delete_content")
  /\ UNCHANGED <<svc, refs, content, clock, created, submittedAtWrites>>

\* DeleteAchievement going on to the reference write whatever the soft-delete
\* returned
CtxDelete_SoftDelete_ErrIgnored(p) ==
  /\ pc[p] = "delete_content" /\ svc = "ctx"
  /\ \E up \in BOOLEAN :
       IF Reach(p, up)
       THEN /\ content' = SoftDeleteAchievement(l[p].oid, clock)
            /\ clock' = clock + 1
            /\ l' = [l EXCEPT ![p].wroteContent = TRUE]
       ELSE /\ l' = [l EXCEPT ![p].softDeleteErr = StoreErr(p)]
            /\ UNCHANGED <<content, clock>>
  /\ Goto(p, "delete_reference")
  /\ UNCHANGED <<svc, refs, created, calls, cancelled, submittedAtWrites>>

\* DeleteAchievement, step 3: SoftDeleteAchievement; its error ends the call
CtxDelete_SoftDelete(p) ==
  /\ pc[p] = "delete_content" /\ svc = "ctx"
  /\ \E up \in BOOLEAN :
       IF Reach(p, up)
       THEN /\ content' = SoftDeleteAchievement(l[p].oid, clock)
            /\ clock' = clock + 1
            /\ l' = [l EXCEPT ![p].wroteContent = TRUE]
            /\ Goto(p, "delete_reference")
       ELSE /\ l' = [l EXCEPT ![p].softDeleteErr = StoreErr(p), ![p].retClock = clock]
            /\ Return(p, StoreErr(p), NoVal)
            /\ UNCHANGED <<content, clock>>
  /\ UNCHANGED <<svc, refs, created, calls, cancelled, submittedAtWrites>>

\* DeleteAchievement returning success without its step 4
CtxDelete_Write_Skipped(p) ==
  /\ pc[p] = "delete_reference" /\ svc = "ctx"
  /\ l' = [l EXCEPT ![p].retClock = clock]
  /\ Return(p, OK, NoVal)
  /\ UNCHANGED <<svc, refs, content, clock, created, calls, cancelled, submittedAtWrites>>

\* DeleteAchievement, step 4: UpdateStatus(ctx, id, "deleted", nil, nil)
CtxDelete_Write(p) ==
  /\ pc[p] = "delete_reference" /\ svc = "ctx"
  /\ UpdateStatus(p, l[p].id, "deleted", NoUser, NoNote)
  /\ UNCHANGED <<svc, content, created, calls, cancelled>>

\* ======================================================================
\* Handlers of the context-based service (src/app/routes/achievement.go)
\* ======================================================================

\* middleware.RequireRole letting every role through
RequireRole_AnyRole(userID, upRole) ==
  IF ~upRole THEN ErrRoleNotFound ELSE OK

\* middleware.RequireRole: the role of the request's user (GetRole answering
\* or not) is a required one
RequireRole(userID, upRole) ==
  IF ~upRole THEN ErrRoleNotFound
  ELSE IF RoleOf(userID) \notin RequiredRoles THEN ErrInsufficientRole
  ELSE OK

\* ValidateOwnership without the comparison of student.UserID with the user
ValidateOwnership_AnyUser(id, userID, upRef, upStudent) ==
  LET r == GetReferenceByID(id)
  IN IF ~upRef THEN ErrStore
     ELSE IF r.err # OK THEN r.err
     ELSE IF ~upStudent THEN ErrStudentProfile
     ELSE OK

\* ValidateOwnership(ctx, achievementID, userID): the reference (store up or
\* not), its student (GetByID answering or not), student.UserID against the
\* user
ValidateOwnership(id, userID, upRef, upStudent) ==
  LET r == GetReferenceByID(id)
  IN IF ~upRef THEN ErrStore
     ELSE IF r.err # OK THEN r.err
     ELSE IF ~upStudent THEN ErrStudentProfile
     ELSE IF r.ref.student_id # userID THEN ErrAccessDenied
     ELSE OK

\* a request the handler or the middleware before it answers with an error,
\* no service method called
Refuse(p, op, id, userID, note, ref, e) ==
  /\ StartCall(p)
  /\ ReturnAtOnce(p, [Begin(p, op, id, userID) EXCEPT !.note = note, !.ref = ref],
                  e, NoVal)
  /\ UNCHANGED <<svc, refs, content, clock, created, submittedAtWrites>>

\* POST /:id/submit: ValidateOwnership, then SubmitForVerification (its read)
Submit(p, id, userID) ==
  /\ svc = "ctx"
  /\ \E upRef, upStudent \in BOOLEAN :
       LET e == ValidateOwnership(id, userID, upRef, upStudent)
       IN IF e # OK
          THEN Refuse(p, "submit", id, userID, NoNote,
                      IF upRef THEN GetReferenceByID(id).ref ELSE NoRef, e)
          ELSE CtxLoadForTransition(p, "submit", id, userID, NoNote, "draft",
                                    ErrOnlyDraftSubmit, "submit_write")

\* POST /:id/verify behind RequireRole: VerifyAchievement (its read)
Verify(p, id, userID) ==
  /\ svc = "ctx"
  /\ \E upRole \in BOOLEAN :
       LET e == RequireRole(userID, upRole)
       IN IF e # OK
          THEN Refuse(p, "verify", id, userID, NoNote, NoRef, e)
          ELSE CtxVerify_Read(p, id, userID)

\* POST /:id/reject behind RequireRole: the note must not be empty, then
\* RejectAchievement (its read)
Reject(p, id, userID, note) ==
  /\ svc = "ctx"
  /\ \E upRole \in BOOLEAN :
       LET e == RequireRole(userID, upRole)
       IN IF e # OK
          THEN Refuse(p, "reject", id, userID, note, NoRef, e)
          ELSE IF note = ""
          THEN Refuse(p, "reject", id, userID, note, NoRef, ErrNoteRequired)
          ELSE CtxReject_Read(p, id, userID, note)

\* the caller's context is cancelled while its call is between two store calls
Cancel(p) ==
  /\ svc = "ctx" /\ pc[p] # "idle" /\ ~cancelled[p]
  /\ cancelled' = [cancelled EXCEPT ![p] = TRUE]
  /\ UNCHANGED <<svc, refs, content, pc, l, ret, clock, created, calls, submittedAtWrites>>

CtxNext(p) ==
  \/ \E s \in Owners, f \in Fields : CtxCreate_InsertContent(p, s, f)
  \/ CtxCreate_CreateReference(p)
  \/ CtxCreate_Compensate(p)
  \/ \E id \in RefIds : CtxGetAchievementDetail(p, id)
  \/ \E id \in RefIds : CtxSubmit_Read(p, id)
  \/ CtxSubmit_Write(p)
  \/ \E id \in RefIds, v \in Verifiers : CtxVerify_Read(p, id, v)
  \/ CtxVerify_Write(p)
  \/ \E id \in RefIds, v \in Verifiers, n \in Notes : CtxReject_Read(p, id, v, n)
  \/ CtxReject_Write(p)
  \/ \E id \in RefIds, s \in Students : CtxDelete_Read(p, id, s)
  \/ CtxDelete_SoftDelete(p)
  \/ CtxDelete_Write(p)
  \/ \E id \in RefIds, u \in Students : Submit(p, id, u)
  \/ \E id \in RefIds, u \in Users : Verify(p, id, u)
  \/ \E id \in RefIds, u \in Users, n \in Notes : Reject(p, id, u, n)
  \/ Cancel(p)

\* ======================================================================
\* Repository of the GORM-based service (student_repository.go, 2nd file)
\* ======================================================================

\* FindReferenceByID: First(&ref, "id = ?", id)
FindReferenceByID(id) ==
  IF id \in DOMAIN refs THEN [err |-> OK, ref |-> refs[id]]
  ELSE [err |-> ErrRecordNotFound, ref |-> NoRef]

\* FindMongoByID: FindOne by _id alone, the driver's error as it is
FindMongoByID(oid) ==
  IF oid \in DOMAIN content THEN [err |-> OK, doc |-> content[oid]]
  ELSE [err |-> ErrNoDocuments, doc |-> NoDoc]

\* UpdateMongo: UpdateOne {_id} $set <the caller's document>, UpdatedAt = now
UpdateMongo(oid, doc, now) ==
  IF oid \in DOMAIN content
  THEN [content EXCEPT ![oid].studentId = doc.studentId,
                       ![oid].fields = doc.fields,
                       ![oid].updatedAt = now]
  ELSE content

\* SoftDeleteMongo: UpdateOne {_id} $set isDeleted = true, updatedAt = now
SoftDeleteMongo(oid, now) ==
  IF oid \in DOMAIN content
  THEN [content EXCEPT ![oid].isDeleted = TRUE, ![oid].updatedAt = now]
  ELSE content

\* UpdateReference(ref) = db.Save(ref) as the last store call of the call of
\* p: every column of the row is written from the struct the call loaded
UpdateReference(p, id, row) ==
  \E up \in BOOLEAN :
    IF ~up
    THEN /\ Return(p, ErrStore, NoVal)
         /\ l' = [l EXCEPT ![p].retClock = clock]
         /\ UNCHANGED <<refs, clock, submittedAtWrites>>
    ELSE /\ refs' = [refs EXCEPT ![id] = [row EXCEPT !.updated_at = clock]]
         /\ submittedAtWrites' =
              IF row.submitted_at # refs[id].submitted_at
              THEN [submittedAtWrites EXCEPT ![id] = @ + 1]
              ELSE submittedAtWrites
         /\ clock' = clock + 1
         /\ l' = [l EXCEPT ![p].wroteRef = TRUE, ![p].retClock = clock + 1]
         /\ Return(p, OK, NoVal)

\* ======================================================================
\* GORM-based achievementService (src/app/service/achievement.go)
\* ======================================================================

\* CreateAchievement: StudentID set, CreateMongo
GormCreate_CreateMongo(p, studentID, fields) ==
  /\ svc = "gorm" /\ StartCall(p) /\ created < MaxCreates
  /\ created' = created + 1
  /\ LET n   == created + 1
         oid == NewObjectID(n)
         doc == [NoDoc EXCEPT !.studentId = studentID, !.fields = fields,
                              !.updatedAt = clock]
         loc == [Begin(p, "create", 0, studentID) EXCEPT
                   !.oid = oid, !.refid = NewUUID(n), !.doc = doc]
     IN \E up \in BOOLEAN :
          IF up
          THEN /\ content' = content @@ (oid :> doc)
               /\ clock' = clock + 1
               /\ l' = [l EXCEPT ![p] = [loc EXCEPT !.contentCreated = TRUE,
                                                    !.wroteContent = TRUE]]
               /\ Goto(p, "create_reference")
          ELSE /\ ReturnAtOnce(p, loc, ErrStore, NoVal)
               /\ UNCHANGED <<content, clock>>
  /\ UNCHANGED <<svc, refs, submittedAtWrites>>

\* CreateAchievement: CreateReference; its error is returned as it is
GormCreate_CreateReference(p) ==
  /\ pc[p] = "create_reference" /\ svc = "gorm"
  /\ LET ref == [NoRef EXCEPT !.student_id = l[p].actor,
                              !.mongo_achievement_id = Hex(l[p].oid),
                              !.status = "draft", !.rejection_note = "",
                              !.updated_at = clock]
     IN \E up \in BOOLEAN :
          IF up
          THEN /\ refs' = refs @@ (l[p].refid :> ref)
               /\ submittedAtWrites' = submittedAtWrites @@ (l[p].refid :> 0)
               /\ clock' = clock + 1
               /\ l' = [l EXCEPT ![p].wroteRef = TRUE, ![p].retClock = clock + 1]
               /\ Return(p, OK, ReferenceVal(l[p].refid, ref))
          ELSE /\ l' = [l EXCEPT ![p].createErr = ErrStore, ![p].retClock = clock]
               /\ Return(p, ErrStore, NoVal)
               /\ UNCHANGED <<refs, submittedAtWrites, clock>>
  /\ UNCHANGED <<svc, content, created, calls, cancelled>>

\* GetAchievementByID(id) with the reference store up: reference,
\* ObjectIDFromHex, document; every error is returned as it is
GetAchievementByID_Gorm(id, upMongo) ==
  LET r == FindReferenceByID(id)
      h == ObjectIDFromHex(r.ref.mongo_achievement_id)
      d == FindMongoByID(h.oid)
  IN IF r.err # OK THEN [err |-> r.err, val |-> NoVal]
     ELSE IF h.err # OK THEN [err |-> h.err, val |-> NoVal]
     ELSE IF ~upMongo THEN [err |-> ErrStore, val |-> NoVal]
     ELSE IF d.err # OK THEN [err |-> d.err, val |-> NoVal]
     ELSE [err |-> OK, val |-> BothVal(id, r.ref, d.doc)]

\* a GetAchievementByID call
GormGetAchievementByID(p, id) ==
  /\ svc = "gorm" /\ StartCall(p)
  /\ \E upSql \in BOOLEAN, upMongo \in BOOLEAN :
       LET out == IF upSql THEN GetAchievementByID_Gorm(id, upMongo)
                  ELSE [err |-> ErrStore, val |-> NoVal]
       IN ReturnAtOnce(p, Begin(p, "read", id, NoUser), out.err, out.val)
  /\ UNCHANGED <<svc, refs, content, clock, created, submittedAtWrites>>

\* the read half of every mutating call: FindReferenceByID, the ownership
\* check (owner-only calls), the status rule, ObjectIDFromHex (content calls)
GormLoad(p, op, id, actor, note, doc, ownerOnly, required, refusal, parse, label) ==
  /\ svc = "gorm" /\ StartCall(p)
  /\ LET loc == [Begin(p, op, id, actor) EXCEPT !.note = note, !.doc = doc]
         r   == FindReferenceByID(id)
         h   == ObjectIDFromHex(r.ref.mongo_achievement_id)
     IN \E up \in BOOLEAN :
          IF ~up THEN ReturnAtOnce(p, loc, ErrStore, NoVal)
          ELSE IF r.err # OK THEN ReturnAtOnce(p, loc, r.err, NoVal)
          ELSE IF ownerOnly /\ r.ref.student_id # actor
               THEN ReturnAtOnce(p, [loc EXCEPT !.ref = r.ref], ErrNotOwnerGorm, NoVal)
          ELSE IF r.ref.status # required
               THEN ReturnAtOnce(p, [loc EXCEPT !.ref = r.ref], refusal, NoVal)
          ELSE IF parse /\ h.err # OK
               THEN ReturnAtOnce(p, [loc EXCEPT !.ref = r.ref], h.err, NoVal)
          ELSE /\ l' = [l EXCEPT ![p] = [loc EXCEPT !.ref = r.ref,
                                                   !.oid = IF parse THEN h.oid ELSE NoOid]]
               /\ Goto(p, label)
  /\ UNCHANGED <<svc, refs, content, clock, created, submittedAtWrites>>

\* the status UpdateAchievement requires of the reference
UpdateRequires == "draft"

\* UpdateAchievement without the status rule
GormUpdate_Read_NoStatusRule(p, id, studentID, doc) ==
  GormLoad(p, "update", id, studentID, NoNote, doc, TRUE,
           FindReferenceByID(id).ref.status, ErrOnlyDraftUpdate, TRUE, "update_content")

\* UpdateAchievement: reference, ownership, "only draft" rule, ObjectIDFromHex
GormUpdate_Read(p, id, studentID, doc) ==
  GormLoad(p, "update", id, studentID, NoNote, doc, TRUE, UpdateRequires,
           ErrOnlyDraftUpdate, TRUE, "update_content")

\* UpdateAchievement: achievement.ID = mongoID; UpdateMongo(achievement)
GormUpdate_UpdateMongo(p) ==
  /\ pc[p] = "update_content" /\ svc = "gorm"
  /\ \E up \in BOOLEAN :
       IF up
       THEN /\ content' = UpdateMongo(l[p].oid, l[p].doc, clock)
            /\ clock' = clock + 1
            /\ l' = [l EXCEPT ![p].wroteContent = TRUE, ![p].retClock = clock + 1]
            /\ Return(p, OK, NoVal)
       ELSE /\ l' = [l EXCEPT ![p].retClock = clock]
            /\ Return(p, ErrStore, NoVal)
            /\ UNCHANGED <<content, clock>>
  /\ UNCHANGED <<svc, refs, created, calls, cancelled, submittedAtWrites>>

\* the status DeleteAchievement of the GORM-based service requires
GormDeleteRequires == "draft"

\* DeleteAchievement: reference, ownership, "only draft" rule, ObjectIDFromHex
GormDelete_Read(p, id, studentID) ==
  GormLoad(p, "delete", id, studentID, NoNote, NoDoc, TRUE, GormDeleteRequires,
           ErrOnlyDraftDelete, TRUE, "delete_content")

\* DeleteAchievement: SoftDeleteMongo; its error ends the call
GormDelete_SoftDeleteMongo(p) ==
  /\ pc[p] = "delete_content" /\ svc = "gorm"
  /\ \E up \in BOOLEAN :
       IF up
       THEN /\ content' = SoftDeleteMongo(l[p].oid, clock)
            /\ clock' = clock + 1
            /\ l' = [l EXCEPT ![p].wroteContent = TRUE]
            /\ Goto(p, "delete_reference")
       ELSE /\ l' = [l EXCEPT ![p].softDeleteErr = ErrStore, ![p].retClock = clock]
            /\ Return(p, ErrStore, NoVal)
            /\ UNCHANGED <<content, clock>>
  /\ UNCHANGED <<svc, refs, created, calls, cancelled, submittedAtWrites>>

\* DeleteAchievement: ref.Status = deleted; UpdateReference(ref)
GormDelete_Write(p) ==
  /\ pc[p] = "delete_reference" /\ svc = "gorm"
  /\ UpdateReference(p, l[p].id, [l[p].ref EXCEPT !.status = "deleted"])
  /\ UNCHANGED <<svc, content, created, calls, cancelled>>

\* SubmitForVerification: reference, ownership, "only draft" rule
GormSubmit_Read(p, id, studentID) ==
  GormLoad(p, "submit", id, studentID, NoNote, NoDoc, TRUE, "draft",
           ErrOnlyDraftSubmit, FALSE, "submit_write")

\* SubmitForVerification: Status = submitted, SubmittedAt = now; UpdateReference
GormSubmit_Write(p) ==
  /\ pc[p] = "submit_write" /\ svc = "gorm"
  /\ UpdateReference(p, l[p].id,
       [l[p].ref EXCEPT !.status = "submitted", !.submitted_at = clock])
  /\ UNCHANGED <<svc, content, created, calls, cancelled>>

\* VerifyAchievement: reference, "only submitted" rule
GormVerify_Read(p, id, verifierID) ==
  GormLoad(p, "verify", id, verifierID, NoNote, NoDoc, FALSE, "submitted",
           ErrOnlySubmVerify, FALSE, "verify_write")

\* VerifyAchievement: Status, VerifiedAt = now, VerifiedBy; UpdateReference
GormVerify_Write(p) ==
  /\ pc[p] = "verify_write" /\ svc = "gorm"
  /\ UpdateReference(p, l[p].id,
       [l[p].ref EXCEPT !.status = "verified", !.verified_at = clock,
                        !.verified_by = l[p].actor])
  /\ UNCHANGED <<svc, content, created, calls, cancelled>>

\* RejectAchievement: reference, "only submitted" rule
GormReject_Read(p, id, verifierID, note) ==
  GormLoad(p, "reject", id, verifierID, note, NoDoc, FALSE, "submitted",
           ErrOnlySubmReject, FALSE, "reject_write")

\* RejectAchievement: Status, RejectionNote = note, VerifiedBy; UpdateReference
GormReject_Write(p) ==
  /\ pc[p] = "reject_write" /\ svc = "gorm"
  /\ UpdateReference(p, l[p].id,
       [l[p].ref EXCEPT !.status = "rejected", !.rejection_note = l[p].note,
                        !.verified_by = l[p].actor])
  /\ UNCHANGED <<svc, content, created, calls, cancelled>>

\* POST /achievements/:id/reject of the GORM routes (behind its permission
\* middleware): rejection_note must not be empty, then RejectAchievement
GormRejectRoute(p, id, userID, note) ==
  /\ svc = "gorm"
  /\ IF note = ""
     THEN Refuse(p, "reject", id, userID, note, NoRef, ErrNoteRequiredGorm)
     ELSE GormReject_Read(p, id, userID, note)

\* the documents a caller can send to UpdateAchievement: the JSON body binds
\* every field of the document, the owner included (absent, or another
\* student's id)
UpdateDocs == {[NoDoc EXCEPT !.studentId = s, !.fields = f] :
                 s \in {"", "S2"}, f \in Fields}

GormNext(p) ==
  \/ \E s \in Owners, f \in Fields : GormCreate_CreateMongo(p, s, f)
  \/ GormCreate_CreateReference(p)
  \/ \E id \in RefIds : GormGetAchievementByID(p, id)
  \/ \E id \in RefIds, s \in Students, d \in UpdateDocs : GormUpdate_Read(p, id, s, d)
  \/ GormUpdate_UpdateMongo(p)
  \/ \E id \in RefIds, s \in Students : GormDelete_Read(p, id, s)
  \/ GormDelete_SoftDeleteMongo(p)
  \/ GormDelete_Write(p)
  \/ \E id \in RefIds, s \in Students : GormSubmit_Read(p, id, s)
  \/ GormSubmit_Write(p)
  \/ \E id \in RefIds, v \in Verifiers : GormVerify_Read(p, id, v)
  \/ GormVerify_Write(p)
  \/ \E id \in RefIds, v \in Verifiers, n \in Notes : GormReject_Read(p, id, v, n)
  \/ GormReject_Write(p)
  \/ \E id \in RefIds, v \in Verifiers, n \in Notes : GormRejectRoute(p, id, v, n)

Next == \E p \in Procs : CtxNext(p) \/ GormNext(p)

Spec == Init /\ [][Next]_vars

\* ======================================================================
\* Properties
\* ======================================================================

\* the reference rows that point at content document oid
RefsOf(oid) == {r \in DOMAIN refs : refs[r].mongo_achievement_id = Hex(oid)}

\* the last call of p was op and has returned
Returned(p, op) == pc[p] = "idle" /\ l[p].op = op

\* the last call of p loaded the reference it names
Loaded(p) == l[p].ref.status # ""

\* the edges of the lifecycle graph
LegalTransitions ==
  {<<"draft", "submitted">>, <<"submitted", "verified">>, <<"submitted", "rejected">>,
   <<"draft", "deleted">>, <<"rejected", "deleted">>}

\* C1: in the context-based service every persisted change of a reference's
\* status is an edge of the lifecycle graph, whatever the interleaving of
\* submit, verify, reject and delete.
C1_OnlyLegalTransitionsPersisted ==
  [][svc = "ctx" =>
       \A r \in DOMAIN refs :
         refs'[r].status # refs[r].status
           => <<refs[r].status, refs'[r].status>> \in LegalTransitions]_vars

\* C2: of two SubmitForVerification calls on the same draft reference exactly
\* one succeeds and the other is refused as "only draft achievements can be
\* submitted"; submitted_at is written once.
C2_ConcurrentSubmitOneWinner ==
  /\ \A r \in DOMAIN refs : submittedAtWrites[r] <= 1
  /\ \A p, q \in Procs :
       (/\ p # q
        /\ Returned(p, "submit") /\ Returned(q, "submit")
        /\ l[p].id = l[q].id
        /\ l[p].ref.status = "draft" /\ l[q].ref.status = "draft"
        /\ ret[p].err \in {OK, ErrOnlyDraftSubmit}
        /\ ret[q].err \in {OK, ErrOnlyDraftSubmit})
         => (ret[p].err = OK) # (ret[q].err = OK)

C4_GormFailedCreateLeavesNoLiveOrphan ==
  \A p \in Procs :
    (svc = "gorm" /\ Returned(p, "create") /\ ret[p].err # OK)
      => \/ ~l[p].contentCreated /\ ~l[p].wroteRef
         \/ l[p].contentCreated /\ SoftDeleted(content[l[p].oid])

\* C5: right after a successful CreateAchievement (no write since) there is
\* exactly one reference to the new content document, it is a draft of the
\* given owner, the document holds the given fields, and reading the
\* reference returns that document.
C5_CreateThenRead ==
  \A p \in Procs :
    (Returned(p, "create") /\ ret[p].err = OK /\ clock = l[p].retClock)
      => LET id  == l[p].refid
             oid == l[p].oid
             out == IF svc = "ctx" THEN GetAchievementDetail(id, TRUE)
                    ELSE GetAchievementByID_Gorm(id, TRUE)
         IN /\ RefsOf(oid) = {id}
            /\ refs[id].status = "draft"
            /\ refs[id].student_id = l[p].actor
            /\ oid \in DOMAIN content
            /\ content[oid].fields = l[p].doc.fields
            /\ content[oid].studentId = l[p].actor
            /\ ~SoftDeleted(content[oid])
            /\ out.err = OK
            /\ out.val.doc = content[oid]
            /\ out.val.doc.fields = l[p].doc.fields

C5_Witness ==
  \E p \in Procs :
    /\ Returned(p, "create") /\ ret[p].err = OK /\ clock = l[p].retClock
    /\ RefsOf(l[p].oid) = {l[p].refid}
    /\ refs[l[p].refid].status = "draft"

\* C6: what a successful CreateAchievement returns carries the id of the new
\* reference, the id the other operations accept.
C6_CreateReturnsReferenceId ==
  \A p \in Procs :
    (Returned(p, "create") /\ ret[p].err = OK)
      => ParseUUID(ret[p].val.id) = l[p].refid

\* C7: UpdateAchievement by the owner on a reference that is not a draft is
\* refused with "only draft achievements can be updated" and writes nothing
\* to the content store.
C7_UpdateRefusedUnlessDraft ==
  \A p \in Procs :
    (/\ svc = "gorm" /\ Returned(p, "update")
     /\ l[p].ref.status \in {"submitted", "verified", "rejected", "deleted"}
     /\ l[p].ref.student_id = l[p].actor)
      => /\ ret[p].err = ErrOnlyDraftUpdate
         /\ ~l[p].wroteContent

C7_Witness ==
  \E p \in Procs :
    /\ svc = "gorm" /\ Returned(p, "update")
    /\ l[p].ref.status = "submitted"
    /\ l[p].ref.student_id = l[p].actor
    /\ l[p].doc.fields # content[ObjectIDFromHex(l[p].ref.mongo_achievement_id).oid].fields
    /\ ret[p].err = ErrOnlyDraftUpdate

\* C8: the fields of a content document change only in a state where the
\* paired reference is a draft, whatever the interleaving of update with
\* submit, verify, reject and delete.
C8_ContentMutableOnlyWhileDraft ==
  [][\A o \in DOMAIN content :
       (content'[o].fields # content[o].fields \/ content'[o].studentId # content[o].studentId)
         => \A r \in RefsOf(o) : refs[r].status = "draft"]_vars

\* C9: a reference has status deleted only in states where its content
\* document is already soft-deleted, and a DeleteAchievement whose content
\* soft-delete failed returns that error without writing the reference.
C9_SoftDeleteBeforeReference ==
  /\ \A r \in DOMAIN refs :
       refs[r].status = "deleted"
         => LET h == ObjectIDFromHex(refs[r].mongo_achievement_id)
            IN h.err = OK /\ h.oid \in DOMAIN content /\ SoftDeleted(content[h.oid])
  /\ \A p \in Procs :
       (l[p].op = "delete" /\ l[p].softDeleteErr # OK)
         => /\ pc[p] = "idle"
            /\ ret[p].err = l[p].softDeleteErr
            /\ ~l[p].wroteRef

C9_Witness ==
  \E p, q \in Procs :
    /\ Returned(p, "delete") /\ l[p].softDeleteErr # OK /\ ret[p].err = l[p].softDeleteErr
    /\ Returned(q, "delete") /\ ret[q].err = OK
    /\ refs[l[q].id].status = "deleted"
    /\ SoftDeleted(content[l[q].oid])

\* C10: DeleteAchievement by the owner goes through from draft and from
\* rejected (ending deleted, content soft-deleted) and is refused from
\* submitted and verified, in both services.
C10_DeleteFromDraftOrRejected ==
  \A p \in Procs :
    (Returned(p, "delete") /\ Loaded(p) /\ l[p].ref.student_id = l[p].actor)
      => /\ l[p].ref.status \in {"draft", "rejected"}
              => /\ ret[p].err \notin {ErrOnlyDraftDelete, ErrCannotDelete}
                 /\ ret[p].err = OK => l[p].wroteContent /\ l[p].wroteRef
         /\ l[p].ref.status \in {"submitted", "verified"}
              => /\ ret[p].err \in {ErrOnlyDraftDelete, ErrCannotDelete}
                 /\ ~l[p].wroteContent /\ ~l[p].wroteRef

\* verified_by, verified_at and rejection_note of a reference row
ReviewFields(row) == <<row.verified_by, row.verified_at, row.rejection_note>>

\* a row whose three review fields are unset ("" is the zero value the GORM
\* struct stores for a note nobody wrote)
ReviewFieldsUnset(row) ==
  /\ row.verified_by = NoUser
  /\ row.verified_at = Null
  /\ row.rejection_note \in {NoNote, ""}

\* C11: a new reference has verified_by, verified_at and rejection_note
\* unset, and the three fields change only in a step that takes the
\* reference from submitted to verified or rejected.
C11_ReviewFieldsOnlyOnReview ==
  [][\A r \in DOMAIN refs' :
       IF r \notin DOMAIN refs
       THEN ReviewFieldsUnset(refs'[r])
       ELSE ReviewFields(refs'[r]) # ReviewFields(refs[r])
              => /\ refs[r].status = "submitted"
                 /\ refs'[r].status \in {"verified", "rejected"}]_vars

\* C12: the owner on a reference row and the owner (studentId) on a content
\* document are the ones CreateAchievement wrote and never change afterwards;
\* a successful UpdateAchievement leaves the document's owner as it was.
C12_OwnerNeverChanges ==
  [][/\ \A r \in DOMAIN refs : refs'[r].student_id = refs[r].student_id
     /\ \A o \in DOMAIN content : content'[o].studentId = content[o].studentId
     /\ \A r \in DOMAIN refs' :
          LET h == ObjectIDFromHex(refs'[r].mongo_achievement_id)
          IN r \notin DOMAIN refs
               => /\ h.oid \in DOMAIN content'
                  /\ content'[h.oid].studentId = refs'[r].student_id]_vars

\* I1 of the two stores: every reference resolves to a content document, and
\* the document is soft-deleted exactly when the reference is deleted
I1 ==
  \A r \in DOMAIN refs :
    LET h == ObjectIDFromHex(refs[r].mongo_achievement_id)
    IN /\ h.err = OK
       /\ h.oid \in DOMAIN content
       /\ SoftDeleted(content[h.oid]) <=> refs[r].status = "deleted"

\* the operations that write a store
Mutations == {"create", "update", "submit", "verify", "reject", "delete"}

\* the step is request p returning success from a mutation, no other request
\* being inside a call
ReturnsSuccess(p) ==
  /\ pc'[p] = "idle" /\ ret'[p].err = OK
  /\ pc'[p] # pc[p] \/ l'[p] # l[p]
  /\ l'[p].op \in Mutations
  /\ \A q \in Procs : pc'[q] = "idle"

\* C13: in the state a create, update, submit, verify, reject or delete
\* leaves when it returns success (no other call in flight), every reference
\* that is not deleted resolves to a live content document and every deleted
\* reference to a soft-deleted one, whatever ran before.
C13_I1AfterEverySuccess ==
  [][(\E p \in Procs : ReturnsSuccess(p)) => I1']_vars

\* ======================================================================
\* Reads over the seeded stores (src/unnamed/part_013)
\* ======================================================================
\* The SQL seeder inserts achievement_references rows that name fixed Mongo
\* ids; a second program drops the "achievements" collection and inserts the
\* documents of those ids.  Between the two (or with the collection dropped
\* and not yet re-seeded) a reference names a document that does not exist.

SeedStatuses == {"verified", "submitted", "draft", "rejected"}

\* one row of achievementRefs as the seeder inserts it: rejection_note is ''
\* unless the row is rejected, verified_by is set on verified and rejected rows
SeedRow(status) ==
  [student_id |-> "S1",
   mongo_achievement_id |-> Hex(NewObjectID(1)),
   status |-> status,
   submitted_at |-> IF status = "draft" THEN Null ELSE 1,
   verified_at |-> IF status = "verified" THEN 2 ELSE Null,
   verified_by |-> IF status \in {"verified", "rejected"} THEN "V1" ELSE NoUser,
   rejection_note |-> IF status = "rejected" THEN "incomplete" ELSE "",
   updated_at |-> 3]

\* the document createAchievement of the Mongo seeder builds for that id
SeedDoc == [NoDoc EXCEPT !.studentId = "S1", !.fields = "X", !.updatedAt = 1]

\* an id no reference has
UnknownId == MaxCreates + 1

InitSeeded ==
  /\ svc \in Services
  /\ \E st \in SeedStatuses : refs = <<SeedRow(st)>>
  /\ content \in {<< >>, NewObjectID(1) :> SeedDoc}
  /\ pc = [p \in Procs |-> "idle"]
  /\ l = [p \in Procs |-> InitLocals]
  /\ ret = [p \in Procs |-> [err |-> "none", val |-> NoVal]]
  /\ clock = 4
  /\ created = MaxCreates
  /\ calls = 0
  /\ cancelled = [p \in Procs |-> FALSE]
  /\ submittedAtWrites = <<0>>

NextSeeded ==
  \E p \in Procs, id \in RefIds \cup {UnknownId} :
    \/ CtxGetAchievementDetail(p, id)
    \/ GormGetAchievementByID(p, id)

SeedSpec == InitSeeded /\ [][NextSeeded]_vars

\* the one data-integrity error the services have, and their not-found errors
DataIntegrityErrors == {ErrMalformedId}
NotFoundErrors == {ErrRefNotFound, ErrRecordNotFound, ErrMongoNotFound, ErrNoDocuments}

\* what a read of an id no reference has returns
MissingReferenceError ==
  IF svc = "ctx" THEN GetAchievementDetail(UnknownId, TRUE).err
  ELSE GetAchievementByID_Gorm(UnknownId, TRUE).err

\* the read of p found a reference that is not deleted and no document under
\* the id the reference names
ContentLookupFailed(p) ==
  /\ Returned(p, "read") /\ ret[p].err # ErrStore
  /\ l[p].id \in DOMAIN refs /\ refs[l[p].id].status # "deleted"
  /\ LET h == ObjectIDFromHex(refs[l[p].id].mongo_achievement_id)
     IN h.err = OK /\ h.oid \notin DOMAIN content

\* C14: a read that finds a live reference whose content document cannot be
\* found returns an error that is a data-integrity error, is not the error of
\* a missing reference and is not a not-found error.
C14_MissingContentIsDataIntegrityError ==
  \A p \in Procs :
    ContentLookupFailed(p)
      => /\ ret[p].err # OK
         /\ ret[p].err # MissingReferenceError
         /\ ret[p].err \in DataIntegrityErrors
         /\ ret[p].err \notin NotFoundErrors

\* C15: a context-based CreateAchievement whose context was cancelled after
\* its content insert succeeded ends with the reference created or with the
\* content document soft-deleted, never with a live document nothing refers to.
C15_CancelledCreateLeavesNoLiveOrphan ==
  \A p \in Procs :
    (/\ svc = "ctx" /\ Returned(p, "create")
     /\ l[p].contentCreated /\ cancelled[p])
      => \/ RefsOf(l[p].oid) # {}
         \/ SoftDeleted(content[l[p].oid])

\* C16: a context-based CreateAchievement whose CreateReference failed and
\* whose compensating soft-delete failed as well returns the error of
\* CreateReference (not success, not the error of the compensation) and has
\* attempted the compensation once.
C16_CompensationFailureKeepsOriginalError ==
  \A p \in Procs :
    (/\ svc = "ctx" /\ Returned(p, "create")
     /\ l[p].createErr # OK /\ l[p].softDeleteErr # OK)
      => /\ ret[p].err # OK
         /\ ret[p].err = l[p].createErr
         /\ l[p].compensations = 1

C16_Witness ==
  \E p \in Procs :
    /\ svc = "ctx" /\ Returned(p, "create")
    /\ l[p].createErr = ErrStore /\ l[p].softDeleteErr = ErrCanceled
    /\ ret[p].err = ErrStore
    /\ l[p].compensations = 1

\* C17: a reject with an empty note is denied on every path, the Reject
\* handlers and the RejectAchievement methods alike: it never gets to its
\* reference write and returns an error, so a submitted reference stays
\* submitted with verified_by and rejection_note unset.
C17_EmptyNoteRejectDenied ==
  \A p \in Procs :
    (l[p].op = "reject" /\ l[p].note = "")
      => /\ pc[p] = "idle"
         /\ ret[p].err # OK
         /\ ~l[p].wroteRef

\* what a request by someone other than the owner is answered with: the
\* services' "unauthorized" errors, and the errors of ValidateOwnership that
\* the Submit handler sends as 403 Forbidden
OwnershipRefusals ==
  {ErrNotOwnerGorm, ErrNotOwnerCtx, ErrAccessDenied, ErrStudentProfile}

\* the call of p is an update, submit or delete of a reference, requested by a
\* student who is not its owner
ByNonOwner(p) ==
  /\ l[p].op \in {"update", "submit", "delete"}
  /\ Loaded(p)
  /\ l[p].actor \in Students
  /\ l[p].ref.student_id # l[p].actor

\* C18: UpdateAchievement, SubmitForVerification and DeleteAchievement
\* requested by a student who is not the reference's owner return at once
\* with an unauthorized error, whatever the status, and write neither the
\* reference store nor the content store.
C18_NonOwnerRefused ==
  \A p \in Procs :
    ByNonOwner(p)
      => /\ pc[p] = "idle"
         /\ ret[p].err \in OwnershipRefusals
         /\ ~l[p].wroteRef
         /\ ~l[p].wroteContent

\* a submit by S2 of S1's submitted reference and, in the other service, an
\* update by S2 of S1's reference, both refused
C18_Witness ==
  \E p \in Procs :
    /\ ByNonOwner(p) /\ pc[p] = "idle"
    /\ l[p].actor = "S2" /\ l[p].ref.student_id = "S1"
    /\ l[p].ref.status = "submitted"
    /\ \/ svc = "ctx" /\ l[p].op = "submit" /\ ret[p].err = ErrAccessDenied
       \/ svc = "gorm" /\ l[p].op = "update" /\ ret[p].err = ErrNotOwnerGorm
    /\ refs[l[p].id] = l[p].ref

\* what RequireRole answers a request it does not let through (403 Forbidden)
RoleRefusals == {ErrInsufficientRole, ErrRoleNotFound}

\* the user holds none of the roles the verify and reject routes require
LacksVerifierRole(u) == RoleOf(u) \notin RequiredRoles

\* C19: in the context-based service a verify or reject request of a user
\* without the verifier role is refused by RequireRole before VerifyAchievement
\* or RejectAchievement runs: the call returns the middleware's error and
\* writes nothing; and no reference ever carries such a user as its verifier.
C19_NoReviewWithoutVerifierRole ==
  svc = "ctx" =>
    /\ \A p \in Procs :
         (l[p].op \in {"verify", "reject"} /\ LacksVerifierRole(l[p].actor))
           => /\ pc[p] = "idle"
              /\ ret[p].err \in RoleRefusals
              /\ ~l[p].wroteRef
              /\ ~l[p].wroteContent
    /\ \A id \in DOMAIN refs :
         refs[id].verified_by # NoUser => ~LacksVerifierRole(refs[id].verified_by)

\* student S1 asks to verify their own submitted reference and is refused; the
\* reference is still submitted, with no verifier
C19_Witness ==
  \E p \in Procs :
    /\ svc = "ctx" /\ Returned(p, "verify")
    /\ l[p].actor = "S1" /\ LacksVerifierRole("S1")
    /\ ret[p].err = ErrInsufficientRole
    /\ l[p].id \in DOMAIN refs
    /\ refs[l[p].id].status = "submitted"
    /\ refs[l[p].id].student_id = "S1"
    /\ refs[l[p].id].verified_by = NoUser

\* the step with which the call of p, at label, writes the reference and
\* returns success
SucceedsFrom(p, label) ==
  pc[p] = label /\ pc'[p] = "idle" /\ ret'[p].err = OK

\* C20: the step with which a SubmitForVerification succeeds takes the
\* reference from draft to submitted and sets submitted_at; the step with which
\* a VerifyAchievement by V succeeds takes it from submitted to verified, sets
\* verified_at and verified_by = V, and leaves student_id,
\* mongo_achievement_id and submitted_at as they were.
C20_SubmitThenVerify ==
  [][\A p \in Procs :
       LET id == l[p].id
       IN /\ SucceedsFrom(p, "submit_write")
               => /\ refs[id].status = "draft"
                  /\ refs'[id].status = "submitted"
                  /\ refs'[id].submitted_at = clock
                  /\ refs'[id].student_id = refs[id].student_id
                  /\ refs'[id].mongo_achievement_id = refs[id].mongo_achievement_id
          /\ SucceedsFrom(p, "verify_write")
               => /\ refs[id].status = "submitted"
                  /\ refs'[id].status = "verified"
                  /\ refs'[id].verified_at = clock
                  /\ refs'[id].verified_by = l[p].actor
                  /\ refs'[id].student_id = refs[id].student_id
                  /\ refs'[id].mongo_achievement_id = refs[id].mongo_achievement_id
                  /\ refs'[id].submitted_at = refs[id].submitted_at]_vars

\* C21: the step with which a RejectAchievement(id, V, note) on a submitted
\* reference succeeds sets status = rejected, verified_by = V and
\* rejection_note = note and changes no other column besides updated_at;
\* verified_at stays as it was (unset).
C21_RejectChangesOnlyReviewColumns ==
  [][\A p \in Procs :
       LET id == l[p].id
       IN (SucceedsFrom(p, "reject_write") /\ refs[id].status = "submitted")
            => refs'[id] = [refs[id] EXCEPT !.status = "rejected",
                                            !.verified_by = l[p].actor,
                                            !.rejection_note = l[p].note,
                                            !.updated_at = refs'[id].updated_at]]_vars

\* the statuses from which the transition table has an edge for the event
TableFrom(op) ==
  CASE op \in {"submit", "update"} -> {"draft"}
    [] op \in {"verify", "reject"} -> {"submitted"}
    [] op = "delete"               -> {"draft", "rejected"}
    [] OTHER                       -> {}

\* the errors with which the services refuse an event in the wrong status
InvalidStateErrors ==
  {ErrOnlyDraftSubmit, ErrNotSubmitted, ErrCannotDelete, ErrOnlyDraftUpdate,
   ErrOnlyDraftDelete, ErrOnlySubmVerify, ErrOnlySubmReject}

\* the call of p is an event on a reference it read in a status outside the
\* table, requested by someone allowed to request it (the owner for update,
\* submit and delete), the student lookup of ValidateOwnership answering
OutsideTable(p) ==
  /\ l[p].op \in {"submit", "update", "verify", "reject", "delete"}
  /\ Loaded(p)
  /\ l[p].ref.status \notin TableFrom(l[p].op)
  /\ l[p].actor \in Students => l[p].actor = l[p].ref.student_id
  /\ ret[p].err # ErrStudentProfile \/ pc[p] # "idle"

\* C22: an event on a reference whose status (as the call read it) is outside
\* the transition table returns at once with an invalid-state error and
\* writes neither the reference store nor the content store.
C22_OutsideTableRefused ==
  \A p \in Procs :
    OutsideTable(p)
      => /\ pc[p] = "idle"
         /\ ret[p].err \in InvalidStateErrors
         /\ ~l[p].wroteRef
         /\ ~l[p].wroteContent

\* the owner asks to delete their submitted reference and is refused; the
\* reference is as it was
C22_Witness ==
  \E p \in Procs :
    /\ OutsideTable(p) /\ Returned(p, "delete")
    /\ svc = "ctx"
    /\ l[p].actor = "S1"
    /\ l[p].ref.status = "submitted"
    /\ ret[p].err = ErrCannotDelete
    /\ refs[l[p].id] = l[p].ref
    /\ \A q \in Procs : pc[q] = "idle"

\* C23: no step removes a reference, and no step takes a reference out of
\* status deleted, whatever requests run concurrently.
C23_DeletedIsTerminal ==
  [][\A id \in DOMAIN refs :
       /\ id \in DOMAIN refs'
       /\ refs[id].status = "deleted" => refs'[id].status = "deleted"]_vars

\* the errors of a store that did not answer (outage, cancelled context)
StoreErrors == {ErrStore, ErrCanceled}

\* the call of p is a DeleteAchievement by the owner that read the reference
\* as draft or rejected, has returned, and had every store call answered
AnsweredDelete(p) ==
  /\ svc = "ctx" /\ Returned(p, "delete") /\ Loaded(p)
  /\ l[p].actor = l[p].ref.student_id
  /\ l[p].ref.status \in {"draft", "rejected"}
  /\ ret[p].err \notin StoreErrors

\* C24: in the context-based service a DeleteAchievement by the owner of a
\* draft or rejected reference, with both stores answering, succeeds and ends
\* with the reference deleted and the content document soft-deleted; this
\* holds as well when an earlier delete of it failed at the content
\* soft-delete or at the reference write.
C24_DeleteRetrySucceeds ==
  \A p \in Procs :
    AnsweredDelete(p)
      => /\ ret[p].err = OK
         /\ l[p].wroteContent /\ l[p].wroteRef
         /\ l[p].retClock = clock
              => /\ refs[l[p].id].status = "deleted"
                 /\ SoftDeleted(content[l[p].oid])

\* a delete failed at the reference write after soft-deleting the content;
\* the delete repeated after it has succeeded
C24_Witness ==
  \E p, q \in Procs :
    /\ p # q /\ AnsweredDelete(p) /\ ret[p].err = OK
    /\ Returned(q, "delete") /\ l[q].id = l[p].id
    /\ ret[q].err = ErrStore /\ l[q].wroteContent /\ ~l[q].wroteRef
    /\ l[p].ref.status = "draft"
    /\ content[l[p].oid].deleted_at >= l[q].retClock
    /\ l[p].retClock = clock
    /\ refs[l[p].id].status = "deleted"

\* ======================================================================
\* List operations (achievement_repository.go 149-188, student_repository.go
\* 234-272, service/achievement.go 206-265, routes/report.go)
\* ======================================================================

Limits  == {2, 3}     \* page sizes a caller asks for
Offsets == {0, 1}
StatsLimit == 100     \* GetSystemStatistics: limit := 100, offset := 0

\* students.advisor_id: V1 advises S1
AdviseesOf(advisorID) == IF advisorID = "V1" THEN {"S1"} ELSE {}

\* ORDER BY created_at DESC: the ids of the references, newest first
NewestFirst == [i \in 1..Len(refs) |-> Len(refs) + 1 - i]

\* LIMIT limit OFFSET offset
Paginate(ids, limit, offset) ==
  SubSeq(ids, offset + 1, IF offset + limit < Len(ids) THEN offset + limit ELSE Len(ids))

\* GetStudentAchievements / FindReferencesByStudentID:
\* WHERE student_id = $1 AND status != 'deleted'
GetStudentAchievements(studentID, limit, offset) ==
  Paginate(SelectSeq(NewestFirst,
                     LAMBDA id : refs[id].student_id = studentID
                                   /\ refs[id].status # "deleted"),
           limit, offset)

\* GetAdviseeAchievements: WHERE student_id = ANY($1) AND status = 'submitted'
GetAdviseeAchievements(adviseeIDs, limit, offset) ==
  Paginate(SelectSeq(NewestFirst,
                     LAMBDA id : refs[id].student_id \in adviseeIDs
                                   /\ refs[id].status = "submitted"),
           limit, offset)

\* ListAll without its WHERE clause
ListAll_WithDeleted(limit, offset) ==
  Paginate(NewestFirst, limit, offset)

\* ListAll: WHERE status != 'deleted'
ListAll(limit, offset) ==
  Paginate(SelectSeq(NewestFirst, LAMBDA id : refs[id].status # "deleted"),
           limit, offset)

\* FindReferencesByAdvisorID: the advisor's students, status != deleted
FindReferencesByAdvisorID(advisorID, limit, offset) ==
  Paginate(SelectSeq(NewestFirst,
                     LAMBDA id : refs[id].student_id \in AdviseesOf(advisorID)
                                   /\ refs[id].status # "deleted"),
           limit, offset)

\* FindAllReferences: status != deleted, and status = ? when one is asked for
FindAllReferences(limit, offset, status) ==
  Paginate(SelectSeq(NewestFirst,
                     LAMBDA id : refs[id].status # "deleted"
                                   /\ (status # "" => refs[id].status = status)),
           limit, offset)

\* the value of a list call: its entries, or the report's statistics
Item(id, doc) == [id |-> id, ref |-> refs[id], doc |-> doc]
ListVal(items) == [kind |-> "list", items |-> items]
StatsVal(n, byType, byStatus) ==
  [kind |-> "stats", sample_size |-> n, by_achievement_type |-> byType,
   by_status |-> byStatus]

\* the content lookup of reference id in a join: ObjectIDFromHex, then the
\* document by _id; down are the ids whose lookup the store does not answer
Lookup(id, down) ==
  LET h == ObjectIDFromHex(refs[id].mongo_achievement_id)
  IN IF h.err # OK THEN [err |-> h.err, doc |-> NoDoc]
     ELSE IF id \in down THEN [err |-> ErrStore, doc |-> NoDoc]
     ELSE IF h.oid \notin DOMAIN content THEN [err |-> ErrNoDocuments, doc |-> NoDoc]
     ELSE [err |-> OK, doc |-> content[h.oid]]

\* combineAchievementsWithReferences giving up at the first failed lookup
combineAchievementsWithReferences_Abort(page, down) ==
  LET bad == {i \in 1..Len(page) : Lookup(page[i], down).err # OK}
      n   == IF bad = {} THEN Len(page)
             ELSE (CHOOSE i \in bad : \A j \in bad : i <= j) - 1
  IN [i \in 1..n |-> Item(page[i], Lookup(page[i], down).doc)]

\* combineAchievementsWithReferences: `continue` on a failed lookup, append
\* the entry otherwise
combineAchievementsWithReferences(page, down) ==
  LET kept == SelectSeq(page, LAMBDA id : Lookup(id, down).err = OK)
  IN [i \in 1..Len(kept) |-> Item(kept[i], Lookup(kept[i], down).doc)]

\* aggregateStats: by_status counts every reference of the page, by
\* achievement type only those whose document the lookup returned
aggregateStats(page, down) ==
  LET ids  == {page[i] : i \in 1..Len(page)}
      got  == {id \in ids : Lookup(id, down).err = OK}
  IN StatsVal(Len(page),
              [f \in Fields |-> Cardinality({id \in got : Lookup(id, down).doc.fields = f})],
              [st \in {refs[id].status : id \in ids} |->
                 Cardinality({id \in ids : refs[id].status = st})])

\* a list call: the reference query (its failure is the call's error), then
\* the join over the page
ListCall(p, op, actor, page, val, down) ==
  /\ StartCall(p)
  /\ \E upSql \in BOOLEAN :
       IF ~upSql
       THEN ReturnAtOnce(p, Begin(p, op, 0, actor), ErrStore, NoVal)
       ELSE ReturnAtOnce(p, [Begin(p, op, 0, actor) EXCEPT !.page = page, !.down = down],
                         OK, val)
  /\ UNCHANGED <<svc, refs, content, clock, created, submittedAtWrites>>

\* the ids of a page, as a set
PageIds(page) == {page[i] : i \in 1..Len(page)}

\* GORM-based service: GetStudentAchievements
GormGetStudentAchievements(p, studentID, limit, offset) ==
  /\ svc = "gorm"
  /\ LET page == GetStudentAchievements(studentID, limit, offset)
     IN \E down \in SUBSET PageIds(page) :
          ListCall(p, "list_student", studentID, page,
                   ListVal(combineAchievementsWithReferences(page, down)), down)

\* GORM-based service: GetAdvisorAchievements
GormGetAdvisorAchievements(p, advisorID, limit, offset) ==
  /\ svc = "gorm"
  /\ LET page == FindReferencesByAdvisorID(advisorID, limit, offset)
     IN \E down \in SUBSET PageIds(page) :
          ListCall(p, "list_advisor", advisorID, page,
                   ListVal(combineAchievementsWithReferences(page, down)), down)

\* GORM-based service: GetAllAchievements
GormGetAllAchievements(p, limit, offset, status) ==
  /\ svc = "gorm"
  /\ LET page == FindAllReferences(limit, offset, status)
     IN \E down \in SUBSET PageIds(page) :
          ListCall(p, "list_all", NoUser, page,
                   ListVal(combineAchievementsWithReferences(page, down)), down)

\* ReportHandler.GetSystemStatistics: ListAll(100, 0), then aggregateStats
CtxGetSystemStatistics(p) ==
  /\ svc = "ctx"
  /\ LET page == ListAll(StatsLimit, 0)
     IN \E down \in SUBSET PageIds(page) :
          ListCall(p, "statistics", NoUser, page, aggregateStats(page, down), down)

\* the references of a page as entries without content
RefItems(page) == [i \in 1..Len(page) |-> Item(page[i], NoDoc)]

\* ReportHandler.GetStudentReport: GetStudentAchievements, no join
CtxGetStudentReport(p, studentID, limit, offset) ==
  /\ svc = "ctx"
  /\ LET page == GetStudentAchievements(studentID, limit, offset)
     IN ListCall(p, "list_student", studentID, page, ListVal(RefItems(page)), {})

\* AchievementService.ListAchievements: ListAll, no join
CtxListAchievements(p, limit, offset) ==
  /\ svc = "ctx"
  /\ LET page == ListAll(limit, offset)
     IN ListCall(p, "list_all", NoUser, page, ListVal(RefItems(page)), {})

\* AchievementRepository.GetAdviseeAchievements, no join
CtxGetAdviseeAchievements(p, advisorID, limit, offset) ==
  /\ svc = "ctx"
  /\ LET page == GetAdviseeAchievements(AdviseesOf(advisorID), limit, offset)
     IN ListCall(p, "list_advisor", advisorID, page, ListVal(RefItems(page)), {})

\* ----------------------------------------------------------------------
\* The list operations over a store that already holds references: three
\* references (of S1, S2, S1, oldest first) that earlier requests created,
\* submitted or deleted, each with its content document or, as after the
\* Mongo seeder's Drop, without one.
\* ----------------------------------------------------------------------

ListLen == 3                         \* references in the store
ListOwners == [i \in 1..ListLen |-> IF i % 2 = 0 THEN "S2" ELSE "S1"]
ListStatuses ==
  [i \in 1..ListLen |->
     IF i = 1 THEN {"draft", "submitted"}
     ELSE IF i % 2 = 0 THEN {"submitted", "deleted"}
     ELSE {"draft", "submitted", "deleted"}]
ListCalls == 2                       \* calls in a behaviour of ListSpec

\* reference i of the store, in status st, as its create / submit / delete
\* left it
ListRow(i, st) ==
  [student_id |-> ListOwners[i],
   mongo_achievement_id |-> Hex(NewObjectID(i)),
   status |-> st,
   submitted_at |-> IF st = "submitted" THEN ListLen + i ELSE Null,
   verified_at |-> Null,
   verified_by |-> NoUser,
   rejection_note |-> IF svc = "gorm" THEN "" ELSE NoNote,
   updated_at |-> IF st = "draft" THEN i ELSE ListLen + i]

\* the content document of reference i, soft-deleted when the reference is
ListDoc(i, st) ==
  [NoDoc EXCEPT !.studentId = ListOwners[i],
                !.fields = IF i = 2 THEN "Y" ELSE "X",
                !.deleted_at = IF st = "deleted" /\ svc = "ctx" THEN ListLen + i ELSE Null,
                !.isDeleted = st = "deleted" /\ svc = "gorm",
                !.updatedAt = IF st = "deleted" /\ svc = "gorm" THEN ListLen + i ELSE i]

InitList ==
  /\ svc \in Services
  /\ \E st \in [1..ListLen -> {"draft", "submitted", "deleted"}],
        missing \in SUBSET (1..ListLen) :
       /\ \A i \in 1..ListLen : st[i] \in ListStatuses[i]
       /\ refs = [i \in 1..ListLen |-> ListRow(i, st[i])]
       /\ content = [oid \in {NewObjectID(i) : i \in (1..ListLen) \ missing} |->
                       LET i == CHOOSE j \in 1..ListLen : NewObjectID(j) = oid
                       IN ListDoc(i, st[i])]
  /\ pc = [p \in Procs |-> "idle"]
  /\ l = [p \in Procs |-> InitLocals]
  /\ ret = [p \in Procs |-> [err |-> "none", val |-> NoVal]]
  /\ clock = 2 * ListLen + 1
  /\ created = MaxCreates
  /\ calls = MaxCalls - ListCalls
  /\ cancelled = [p \in Procs |-> FALSE]
  /\ submittedAtWrites = [i \in 1..ListLen |-> IF refs[i].status = "submitted" THEN 1 ELSE 0]

ListNext ==
  \E p \in Procs :
    \/ \E s \in Students, lim \in Limits, off \in Offsets :
         GormGetStudentAchievements(p, s, lim, off)
    \/ \E v \in Verifiers, lim \in Limits, off \in Offsets :
         GormGetAdvisorAchievements(p, v, lim, off)
    \/ \E lim \in Limits, off \in Offsets, st \in {"", "submitted", "deleted"} :
         GormGetAllAchievements(p, lim, off, st)
    \/ CtxGetSystemStatistics(p)
    \/ \E s \in Students, lim \in Limits, off \in Offsets :
         CtxGetStudentReport(p, s, lim, off)
    \/ \E lim \in Limits, off \in Offsets : CtxListAchievements(p, lim, off)
    \/ \E v \in Verifiers, lim \in Limits, off \in Offsets :
         CtxGetAdviseeAchievements(p, v, lim, off)
    \/ \E id \in DOMAIN refs, s \in Students : CtxDelete_Read(p, id, s)
    \/ CtxDelete_SoftDelete(p)
    \/ CtxDelete_Write(p)
    \/ \E id \in DOMAIN refs, s \in Students : GormDelete_Read(p, id, s)
    \/ GormDelete_SoftDeleteMongo(p)
    \/ GormDelete_Write(p)

ListSpec == InitList /\ [][ListNext]_vars

\* the list operations that resolve the content of their page
JoinOps == {"list_student", "list_advisor", "list_all", "statistics"}

\* the ids of the entries of a list result, in order
ItemIds(val) == [i \in 1..Len(val.items) |-> val.items[i].id]

\* the references of the page of p whose content lookup succeeded, in page order
Resolved(p) == SelectSeq(l[p].page, LAMBDA id : Lookup(id, l[p].down).err = OK)

\* C25: a list-with-join call returns an error only when its reference query
\* fails, never for a content lookup; its result holds exactly the references
\* of the page whose content lookup succeeded, in page order (for the
\* statistics: the per-type counts are over exactly those references).
C25_FailedLookupIsSkipped ==
  \A p \in Procs :
    (pc[p] = "idle" /\ l[p].op \in JoinOps)
      => /\ ret[p].err # OK => (l[p].page = << >> /\ l[p].down = {})
         /\ (ret[p].err = OK /\ svc = "gorm")
              => ItemIds(ret[p].val) = Resolved(p)
         /\ (ret[p].err = OK /\ l[p].op = "statistics")
              => /\ ret[p].val.sample_size = Len(l[p].page)
                 /\ \A f \in Fields :
                      ret[p].val.by_achievement_type[f] =
                        Cardinality({i \in 1..Len(Resolved(p)) :
                          Lookup(Resolved(p)[i], l[p].down).doc.fields = f})

\* a page of three references, the content lookup of the middle one
\* unanswered: the other two are returned, in order
C25_Witness ==
  \E p \in Procs :
    /\ svc = "gorm" /\ Returned(p, "list_all")
    /\ l[p].page = <<3, 2, 1>>
    /\ 2 \in l[p].down
    /\ ret[p].err = OK
    /\ ItemIds(ret[p].val) = <<3, 1>>

\* C26: the content store's GetAchievementByID / FindMongoByID answers
\* not-found for a document that is soft-deleted: no read returns a
\* soft-deleted document.
C26_SoftDeletedIsNotFound ==
  \A p \in Procs :
    (Returned(p, "read") /\ ret[p].err = OK) => ~SoftDeleted(ret[p].val.doc)

\* the reference carries a rejection note (NULL and '' are no note)
HasNote(row) == row.rejection_note \notin {NoNote, ""}

\* C27: in the context-based service a verified reference carries no
\* rejection note, and a reference that carries one is rejected or deleted.
C27_NoteOnlyOnRejected ==
  svc = "ctx" =>
    \A id \in DOMAIN refs :
      /\ refs[id].status = "verified" => ~HasNote(refs[id])
      /\ HasNote(refs[id]) => refs[id].status \in {"rejected", "deleted"}

\* C28: a DeleteAchievement that returns an error has written neither the
\* content store nor the reference store.
C28_FailedDeleteChangesNothing ==
  \A p \in Procs :
    (Returned(p, "delete") /\ ret[p].err # OK)
      => (~l[p].wroteContent /\ ~l[p].wroteRef)

\* C29: every reference whose status is submitted, verified or rejected has
\* submitted_at set, and every draft reference has submitted_at, verified_at,
\* verified_by and rejection_note unset.
C29_TimestampsMatchStatus ==
  \A id \in DOMAIN refs :
    /\ refs[id].status \in {"submitted", "verified", "rejected"}
         => refs[id].submitted_at # Null
    /\ refs[id].status = "draft"
         => (refs[id].submitted_at = Null /\ ReviewFieldsUnset(refs[id]))

\* a reference of the context-based service that was created, submitted and
\* rejected: it still has the submitted_at its submit set
C29_Witness ==
  \E id \in DOMAIN refs :
    /\ svc = "ctx"
    /\ refs[id].status = "rejected"
    /\ refs[id].submitted_at # Null
    /\ refs[id].submitted_at < refs[id].updated_at
    /\ \A p \in Procs : pc[p] = "idle"

\* the list operations
ListOps == {"list_student", "list_advisor", "list_all", "statistics"}

\* the step is a call, and p has the result of a list call that read the
\* reference store as it is now (every write to it advances the clock)
Lists(p) ==
  /\ pc[p] = "idle" /\ calls' = calls + 1
  /\ l'[p].op \in ListOps
  /\ ret'[p].err = OK
  /\ l'[p].retClock = clock

\* C30: a list call never returns a reference whose status is deleted: a
\* reference that is deleted when the call runs (so after a successful
\* DeleteAchievement) is not in its page, no entry of its result has status
\* deleted, the statistics count no deleted reference, and the by-advisor
\* list of the context-based repository holds submitted references only.
C30_ListsHideDeleted ==
  [][\A p \in Procs :
       Lists(p)
         => /\ \A id \in DOMAIN refs :
                 refs[id].status = "deleted" => id \notin PageIds(l'[p].page)
            /\ ret'[p].val.kind = "list"
                 => \A i \in 1..Len(ret'[p].val.items) :
                      /\ ret'[p].val.items[i].ref.status # "deleted"
                      /\ (svc = "ctx" /\ l'[p].op = "list_advisor")
                           => ret'[p].val.items[i].ref.status = "submitted"
            /\ ret'[p].val.kind = "stats"
                 => "deleted" \notin DOMAIN ret'[p].val.by_status]_vars

\* a draft reference was deleted with success; a list-all that ran after it
\* returned every reference that is not deleted, and not that one
C30_Witness ==
  \E p, q \in Procs :
    /\ p # q
    /\ Returned(q, "delete") /\ ret[q].err = OK /\ l[q].wroteRef
    /\ l[q].ref.status = "draft"
    /\ refs[l[q].id].status = "deleted"
    /\ Returned(p, "list_all") /\ ret[p].err = OK
    /\ l[p].retClock >= l[q].retClock
    /\ l[q].id \notin PageIds(l[p].page)
    /\ PageIds(l[p].page) = {id \in DOMAIN refs : refs[id].status # "deleted"}
    /\ l[p].page # << >>

====
